---- MODULE Spec2Model ----
(***************************************************************************)
(* Model of BluebookScraper (src/src/scraper.py): the markup tree is a     *)
(* nested record, BeautifulSoup's navigation is a set of operators over    *)
(* it, and parse_content is a state machine over the scraper's fields and  *)
(* the locals of process_sequential_content.                               *)
(*                                                                         *)
(* An element is [tag, class, text, kids]; a text node has tag "#text"     *)
(* and carries its characters in text (a sequence of one-character         *)
(* strings).  A place in the tree is a path: the sequence of child         *)
(* indexes from the soup root.                                             *)
(***************************************************************************)
EXTENDS Integers, Sequences, FiniteSets, TLC

\* ------------------------------------------------------------------------
\* Characters and str methods
\* ------------------------------------------------------------------------
Upper == {"A", "S"}
Lower == {"a", "s", "x", "u", "n", "t", "i", "l", "e", "d"}
Whitespace == {" "}

ToLower(c) == IF c = "A" THEN "a" ELSE IF c = "S" THEN "s" ELSE c
ToUpper(c) == IF c = "a" THEN "A" ELSE IF c = "s" THEN "S" ELSE c
IsCased(c) == c \in Upper \cup Lower
\* \w of the re module: letters, digits and the underscore
IsWord(c) == c \in Upper \cup Lower \cup {"1", "_"}

RECURSIVE lstrip(_, _)
lstrip(s, chars) ==
    IF s # <<>> /\ Head(s) \in chars THEN lstrip(Tail(s), chars) ELSE s

RECURSIVE rstrip(_, _)
rstrip(s, chars) ==
    IF s # <<>> /\ s[Len(s)] \in chars
    THEN rstrip(SubSeq(s, 1, Len(s) - 1), chars) ELSE s

strip(s, chars) == rstrip(lstrip(s, chars), chars)

\* str.split() followed by " ".join(): every run of whitespace inside s
\* becomes one space; s has no leading whitespace when this is called.
RECURSIVE split_join(_)
split_join(s) ==
    IF s = <<>> THEN <<>>
    ELSE IF Head(s) \in Whitespace
         THEN <<" ">> \o split_join(lstrip(s, Whitespace))
         ELSE <<Head(s)>> \o split_join(Tail(s))

clean_text(text) ==
    IF text = <<>> THEN <<>> ELSE split_join(strip(text, Whitespace))

lower(s) == [k \in 1..Len(s) |-> ToLower(s[k])]

\* str.isupper(): at least one cased character and no lower-case one
isupper(s) ==
    /\ \E k \in 1..Len(s) : s[k] \in Upper
    /\ \A k \in 1..Len(s) : s[k] \notin Lower

\* str.title(): a cased character is upper-cased when it starts a run of
\* cased characters and lower-cased otherwise
title(s) ==
    [k \in 1..Len(s) |->
        IF IsCased(s[k])
        THEN IF k = 1 \/ ~IsCased(s[k - 1]) THEN ToUpper(s[k]) ELSE ToLower(s[k])
        ELSE s[k]]

\* ------------------------------------------------------------------------
\* The markup tree and BeautifulSoup navigation
\* ------------------------------------------------------------------------
Txt(s) == [tag |-> "#text", class |-> {}, text |-> s, kids |-> <<>>]
El(tag, class, kids) == [tag |-> tag, class |-> class, text |-> <<>>, kids |-> kids]
IsTag(e) == e.tag # "#text"

\* no node: the result of a find() that matches nothing, or of
\* find_next_sibling() at the last sibling
NoPath == <<0>>
AnyClass == "*"

RECURSIVE At(_, _)
At(root, path) ==
    IF path = <<>> THEN root ELSE At(root.kids[Head(path)], Tail(path))

\* paths of the tags below At(root, base), in document order
RECURSIVE PathsUnder(_, _, _)
PathsUnder(e, base, k) ==
    IF k > Len(e.kids) THEN <<>>
    ELSE (IF IsTag(e.kids[k])
          THEN <<base \o <<k>>>> \o PathsUnder(e.kids[k], base \o <<k>>, 1)
          ELSE <<>>)
         \o PathsUnder(e, base, k + 1)

Matches(e, names, cls) ==
    /\ IsTag(e)
    /\ e.tag \in names
    /\ cls = AnyClass \/ cls \in e.class

find_all_paths(root, base, names, cls) ==
    SelectSeq(PathsUnder(At(root, base), base, 1),
              LAMBDA p : Matches(At(root, p), names, cls))

\* find_all on an element: the matching descendants themselves
find_all(e, names, cls) ==
    LET ps == find_all_paths(e, <<>>, names, cls)
    IN  [k \in 1..Len(ps) |-> At(e, ps[k])]

\* find: the first match as a one-element sequence, << >> for None
find(e, names, cls) ==
    LET all == find_all(e, names, cls)
    IN  IF all = <<>> THEN <<>> ELSE <<all[1]>>

RECURSIVE get_text_from(_, _)
get_text_from(kids, k) ==
    IF k > Len(kids) THEN <<>>
    ELSE (IF IsTag(kids[k]) THEN get_text_from(kids[k].kids, 1) ELSE kids[k].text)
         \o get_text_from(kids, k + 1)

get_text(e) == IF IsTag(e) THEN get_text_from(e.kids, 1) ELSE e.text

parent(path) == SubSeq(path, 1, Len(path) - 1)

\* find_next_sibling(): the next sibling that is a tag
RECURSIVE next_tag_from(_, _, _)
next_tag_from(root, up, k) ==
    IF k > Len(At(root, up).kids) THEN NoPath
    ELSE IF IsTag(At(root, up).kids[k]) THEN up \o <<k>>
    ELSE next_tag_from(root, up, k + 1)

find_next_sibling(root, path) ==
    IF path = <<>> THEN NoPath
    ELSE next_tag_from(root, parent(path), path[Len(path)] + 1)

\* the class markers of 'fill-blue-200' in str(element)
RECURSIVE HasMarker(_, _)
HasMarker(e, cls) ==
    /\ IsTag(e)
    /\ \/ cls \in e.class
       \/ \E k \in 1..Len(e.kids) : HasMarker(e.kids[k], cls)

\* ------------------------------------------------------------------------
\* classify_element_type
\* ------------------------------------------------------------------------
SubHeaderMarkers == {"uppercase", "text-xxxxs", "tracking-widest"}

\* classify_element_type with the table check ahead of the example checks
classify_table_first(el) ==
    LET h2 == find(el, {"h2"}, AnyClass)
        text == clean_text(get_text(el))
    IN  IF ~IsTag(el) THEN "unknown"
        ELSE IF el.tag = "table" \/ find(el, {"table"}, AnyClass) # <<>>
             THEN "table"
        ELSE IF "example" \in el.class THEN "example"
        ELSE IF find(el, {"svg"}, AnyClass) # <<>>
                /\ HasMarker(el, "fill-blue-200") THEN "example"
        ELSE IF h2 # <<>> /\ "text-3xl" \in h2[1].class THEN "main_header"
        ELSE IF h2 # <<>> /\ "font-bold" \in h2[1].class
             THEN IF \/ isupper(clean_text(get_text(h2[1])))
                     \/ h2[1].class \cap SubHeaderMarkers # {}
                  THEN "sub_header"
                  ELSE "content"
        ELSE IF find(el, {"p"}, "font-serif") # <<>> THEN "content"
        ELSE IF Len(text) > 5 THEN "content"
        ELSE "unknown"

classify_element_type(element) ==
    LET h2 == find(element, {"h2"}, AnyClass)
        text == clean_text(get_text(element))
    IN  IF ~IsTag(element) THEN "unknown"
        ELSE IF "example" \in element.class THEN "example"
        ELSE IF find(element, {"svg"}, AnyClass) # <<>>
                /\ HasMarker(element, "fill-blue-200") THEN "example"
        ELSE IF element.tag = "table" \/ find(element, {"table"}, AnyClass) # <<>>
             THEN "table"
        ELSE IF h2 # <<>> /\ "text-3xl" \in h2[1].class THEN "main_header"
        ELSE IF h2 # <<>> /\ "font-bold" \in h2[1].class
             THEN IF \/ isupper(clean_text(get_text(h2[1])))
                     \/ h2[1].class \cap SubHeaderMarkers # {}
                  THEN "sub_header"
                  ELSE "content"
        ELSE IF find(element, {"p"}, "font-serif") # <<>> THEN "content"
        ELSE IF Len(text) > 5 THEN "content"
        ELSE "unknown"

\* ------------------------------------------------------------------------
\* generate_id
\* ------------------------------------------------------------------------
Untitled == <<"u", "n", "t", "i", "t", "l", "e", "d">>

\* re.sub(r'[-\s]+', '_', s)
RECURSIVE sub_runs(_)
sub_runs(s) ==
    IF s = <<>> THEN <<>>
    ELSE IF Head(s) \in Whitespace \cup {"-"}
         THEN <<"_">> \o sub_runs(lstrip(s, Whitespace \cup {"-"}))
         ELSE <<Head(s)>> \o sub_runs(Tail(s))

generate_id(t) ==
    IF t = <<>> THEN Untitled
    ELSE LET id_str == lower(t)
             kept == SelectSeq(id_str,
                         LAMBDA c : IsWord(c) \/ c \in Whitespace \/ c = "-")
         IN  strip(sub_runs(kept), {"_"})

\* ------------------------------------------------------------------------
\* extract_content_data
\* ------------------------------------------------------------------------
\* the None that extract_content_data returns
NoData == [type |-> "none"]

\* the texts of a list of elements, cleaned, keeping those longer than 10
LongTexts(els) ==
    LET texts == [k \in 1..Len(els) |-> clean_text(get_text(els[k]))]
    IN  SelectSeq(texts, LAMBDA t : t # <<>> /\ Len(t) > 10)

CellTexts(row) ==
    LET cells == find_all(row, {"td", "th"}, AnyClass)
    IN  [k \in 1..Len(cells) |-> clean_text(get_text(cells[k]))]

extract_content_data(element, element_type) ==
    IF element_type = "main_header" THEN
        LET h2 == find(element, {"h2"}, "text-3xl")
        IN  [type |-> "main_header",
             title |-> IF h2 # <<>> THEN clean_text(get_text(h2[1])) ELSE <<>>,
             id |-> IF h2 # <<>> THEN generate_id(clean_text(get_text(h2[1])))
                    ELSE <<>>]
    ELSE IF element_type = "sub_header" THEN
        LET h2 == find(element, {"h2"}, "font-bold")
            raw == IF h2 # <<>> THEN clean_text(get_text(h2[1])) ELSE <<>>
            ttl == IF isupper(raw) THEN title(raw) ELSE raw
        IN  [type |-> "sub_header", title |-> ttl, id |-> generate_id(ttl)]
    ELSE IF element_type = "content" THEN
        LET serif == LongTexts(find_all(element, {"p"}, "font-serif"))
            other == IF serif # <<>> THEN serif
                     ELSE LongTexts(find_all(element, {"p"}, AnyClass))
            paragraphs ==
                IF other # <<>> THEN other
                ELSE IF find(element, {"div"}, "example") = <<>>
                        /\ find(element, {"table"}, AnyClass) = <<>>
                     THEN LongTexts(<<element>>)
                     ELSE <<>>
        IN  IF paragraphs # <<>>
            THEN [type |-> "content", paragraphs |-> paragraphs]
            ELSE NoData
    ELSE IF element_type = "example" THEN
        LET content_div == find(element, {"div"}, "wysiwyg")
        IN  IF content_div # <<>>
            THEN [type |-> "example",
                  citation |-> clean_text(get_text(content_div[1]))]
            ELSE NoData
    ELSE IF element_type = "table" THEN
        LET tbl == IF element.tag = "table" THEN <<element>>
                   ELSE find(element, {"table"}, AnyClass)
        IN  IF tbl = <<>> THEN NoData
            ELSE LET trs == find_all(tbl[1], {"tr"}, AnyClass)
                     all_rows == [k \in 1..Len(trs) |-> CellTexts(trs[k])]
                     nonempty(row) == \E k \in 1..Len(row) :
                                         strip(row[k], Whitespace) # <<>>
                 IN  [type |-> "table",
                      headers |-> IF trs # <<>> THEN all_rows[1] ELSE <<>>,
                      rows |-> SelectSeq(SubSeq(all_rows, 2, Len(all_rows)), nonempty)]
    ELSE NoData

\* ------------------------------------------------------------------------
\* process_element_sequentially, on the section's record
\* ------------------------------------------------------------------------
Append_to_last(content, block) ==
    [content EXCEPT ![Len(content)].content = Append(@, block)]

\* process_element_sequentially putting a block first instead of last
process_element_first(element, current_section) ==
    LET element_type == classify_element_type(element)
        extracted_data == extract_content_data(element, element_type)
        content == current_section.content
    IN  IF element_type = "unknown" THEN current_section
        ELSE IF element_type = "sub_header" THEN
            [current_section EXCEPT !.content =
                Append(@, [type |-> "subsection",
                           title |-> extracted_data.title,
                           id |-> extracted_data.id,
                           content |-> <<>>])]
        ELSE IF extracted_data = NoData THEN current_section
        ELSE IF content # <<>> /\ content[Len(content)].type = "subsection"
             THEN [current_section EXCEPT !.content = Append_to_last(@, extracted_data)]
             ELSE [current_section EXCEPT !.content = <<extracted_data>> \o @]

\* process_element_sequentially without the look at the last subsection
process_element_flat(element, current_section) ==
    LET element_type == classify_element_type(element)
        extracted_data == extract_content_data(element, element_type)
    IN  IF element_type = "unknown" THEN current_section
        ELSE IF element_type = "sub_header" THEN
            [current_section EXCEPT !.content =
                Append(@, [type |-> "subsection",
                           title |-> extracted_data.title,
                           id |-> extracted_data.id,
                           content |-> <<>>])]
        ELSE IF extracted_data = NoData THEN current_section
        ELSE [current_section EXCEPT !.content = Append(@, extracted_data)]

process_element_sequentially(element, current_section) ==
    LET element_type == classify_element_type(element)
        extracted_data == extract_content_data(element, element_type)
        content == current_section.content
    IN  IF element_type = "unknown" THEN current_section
        ELSE IF element_type = "sub_header" THEN
            [current_section EXCEPT !.content =
                Append(@, [type |-> "subsection",
                           title |-> extracted_data.title,
                           id |-> extracted_data.id,
                           content |-> <<>>])]
        ELSE IF extracted_data = NoData THEN current_section
        ELSE IF content # <<>> /\ content[Len(content)].type = "subsection"
             THEN [current_section EXCEPT !.content = Append_to_last(@, extracted_data)]
             ELSE [current_section EXCEPT !.content = Append(@, extracted_data)]

\* ------------------------------------------------------------------------
\* extract_introduction_content
\* ------------------------------------------------------------------------
\* the loop over main_content.find_all(['div', 'p']), from its k-th element,
\* with the break at the first section's container
RECURSIVE introduction_from(_, _, _, _)
introduction_from(soup, elements, k, first_section) ==
    IF k > Len(elements) THEN <<>>
    ELSE LET element == At(soup, elements[k])
             element_type == classify_element_type(element)
             extracted_data == extract_content_data(element, element_type)
             rest == introduction_from(soup, elements, k + 1, first_section)
         IN  IF \/ element = At(soup, parent(first_section))
                \/ find(element, {"h2"}, "text-3xl") # <<>>
             THEN <<>>
             ELSE IF element_type \in {"content", "example"} /\ extracted_data # NoData
                  THEN <<extracted_data>> \o rest
                  ELSE rest

extract_introduction_content(soup) ==
    LET main_content == find_all_paths(soup, <<>>, {"div"}, "leading-0")
    IN  IF main_content = <<>> THEN <<>>
        ELSE LET first_section ==
                     find_all_paths(soup, main_content[1], {"h2"}, "text-3xl")
             IN  IF first_section = <<>> THEN <<>>
                 ELSE introduction_from(
                          soup,
                          find_all_paths(soup, main_content[1], {"div", "p"}, AnyClass),
                          1, first_section[1])

\* ------------------------------------------------------------------------
\* The pages
\* ------------------------------------------------------------------------
MaxNodes == 4
MaxRich == 2

Chars(c, n) == [k \in 1..n |-> c]

Soup(kids) == El("[document]", {}, kids)
MainContent(kids) == El("div", {"leading-0"}, kids)

Header(t) == El("div", {}, <<El("h2", {"text-3xl"}, <<Txt(t)>>)>>)
SubHeader(t, class) == El("div", {}, <<El("h2", {"font-bold"} \cup class, <<Txt(t)>>)>>)
Prose(t) == El("div", {}, <<El("p", {"font-serif"}, <<Txt(t)>>)>>)
Example(t) == El("div", {"example"}, <<El("div", {"wysiwyg"}, <<Txt(t)>>)>>)
Row(cell, texts) ==
    El("tr", {}, [k \in 1..Len(texts) |-> El(cell, {}, <<Txt(texts[k])>>)])
Table(rows) == El("table", {}, rows)

HeaderA == Header(<<"A">>)
HeaderS == Header(<<"S", " ", "a">>)
SubHeaderSA == SubHeader(<<"S", "A">>, {})
ProseA == Prose(Chars("x", 11))
ProseB == Prose(<<" ">> \o Chars("a", 11) \o <<" ", " ", "s">>)
HeaderRow == Row("th", <<<<"A">>, <<"S">>>>)
TableT == Table(<<HeaderRow, Row("td", <<<<"a">>, <<>>>>)>>)

\* the kinds of node that decide where content goes
StructPool == {HeaderA, HeaderS, SubHeaderSA, ProseA, TableT}

\* every kind of node the extraction distinguishes
RichPool ==
    StructPool \cup
    { ProseB,
      Header(<<"!", "!">>),                            \* a title of punctuation
      Header(<<" ">>),                                 \* a blank title
      SubHeader(<<"s", "a">>, {"uppercase"}),
      SubHeader(<<"S", "a">>, {}),                     \* bold text, not a heading
      Prose(Chars("x", 8)),                            \* too short to keep
      Example(<<"A", " ", "1">>),
      Example(<<" ", " ">>),                           \* nothing but whitespace
      El("div", {"example"}, <<Txt(<<"A">>)>>),        \* no rich-content container
      Table(<<HeaderRow, Row("td", <<<<>>, <<" ">>>>)>>),  \* only an empty row
      Table(<<HeaderRow>>),                            \* only the header row
      Table(<<>>),
      El("div", {}, <<ProseA>>),                       \* a container around prose
      El("div", {}, <<Txt(Chars("x", 12))>>),          \* text with no paragraph
      El("div", {}, <<Txt(<<"x">>)>>) }                \* nothing to classify

SeqsUpTo(S, n) == UNION {[1..m -> S] : m \in 0..n}

Pages ==
    {Soup(<<MainContent(nodes)>>) :
        nodes \in SeqsUpTo(StructPool, MaxNodes) \cup SeqsUpTo(RichPool, MaxRich)}

\* what a fetch brings when the page is not the expected one: markup with
\* no div.leading-0
ErrorPage == Soup(<<El("div", {}, <<Txt(Chars("x", 12))>>)>>)

\* ------------------------------------------------------------------------
\* The scraper
\* ------------------------------------------------------------------------
VARIABLES
    page,                \* the markup behind TARGET_URL
    html,                \* the argument of the latest parse_content
    data,                \* self.data
    pc,                  \* where parse_content stands
    introduction,        \* locals of parse_content and
    section_headers,     \*   process_sequential_content
    section_boundaries,
    content_structure,
    i,
    current_section,
    current_element,
    section_end,
    visited,             \* history: the calls of process_element_sequentially
    classify_arg,        \* the element of a classify_element_type call made
    classify_ret         \*   on its own, and what the call returned

vars == <<page, html, data, pc, introduction, section_headers, section_boundaries,
          content_structure, i, current_section, current_element, section_end,
          visited, classify_arg, classify_ret>>

locals == <<introduction, section_headers, section_boundaries, content_structure,
            i, current_section, current_element, section_end, visited>>

NoSection == [type |-> "none"]
\* no call of classify_element_type on its own yet, and no result yet
NoElement == Txt(<<>>)
NoType == "none"
NoBoundaries == [t \in {} |-> NoPath]

Init ==
    /\ page \in Pages
    /\ html = Soup(<<>>)
    /\ data = [k \in {} |-> <<>>]
    /\ pc = "idle"
    /\ introduction = <<>>
    /\ section_headers = <<>>
    /\ section_boundaries = NoBoundaries
    /\ content_structure = <<>>
    /\ i = 1
    /\ current_section = NoSection
    /\ current_element = NoPath
    /\ section_end = NoPath
    /\ visited = <<>>
    /\ classify_arg = NoElement
    /\ classify_ret = NoType

header_title(soup, header) == clean_text(get_text(At(soup, header)))

\* the dict the first loop of process_sequential_content leaves: a later
\* header overwrites the entry of an earlier one with the same title
boundaries_of(soup, headers) ==
    LET titles == {header_title(soup, headers[k]) : k \in 1..Len(headers)}
        last(t) == CHOOSE k \in 1..Len(headers) :
                      /\ header_title(soup, headers[k]) = t
                      /\ \A m \in (k + 1)..Len(headers) :
                            header_title(soup, headers[m]) # t
    IN  [t \in titles |->
            [start |-> parent(headers[last(t)]),
             end |-> IF last(t) + 1 <= Len(headers)
                     THEN parent(headers[last(t) + 1]) ELSE NoPath]]

\* parse_content up to the second loop of process_sequential_content
parse_content(h) ==
    /\ pc = "idle"
    /\ html' = h
    /\ LET main_content == find_all_paths(h, <<>>, {"div"}, "leading-0")
       IN  IF main_content = <<>>
           THEN /\ pc' = "idle"
                /\ UNCHANGED <<classify_arg, classify_ret, page, data, locals>>
           ELSE LET headers == find_all_paths(h, main_content[1], {"h2"}, "text-3xl")
                IN  /\ introduction' = extract_introduction_content(h)
                    /\ section_headers' = headers
                    /\ section_boundaries' = boundaries_of(h, headers)
                    /\ content_structure' = <<>>
                    /\ i' = 1
                    /\ current_section' = NoSection
                    /\ current_element' = NoPath
                    /\ section_end' = NoPath
                    /\ visited' = <<>>
                    /\ pc' = "sections"
                    /\ UNCHANGED <<classify_arg, classify_ret, page, data>>

\* one turn of "for i, header in enumerate(section_headers)", up to the walk
start_section ==
    /\ pc = "sections"
    /\ IF i > Len(section_headers)
       THEN /\ pc' = "build"
            /\ UNCHANGED <<i, current_section, current_element, section_end>>
       ELSE LET section_title == header_title(html, section_headers[i])
            IN  IF section_title = <<>>
                THEN /\ i' = i + 1
                     /\ UNCHANGED <<pc, current_section, current_element, section_end>>
                ELSE /\ current_section' =
                            [type |-> "main_section",
                             title |-> section_title,
                             id |-> generate_id(section_title),
                             content |-> <<>>]
                     /\ current_element' = parent(section_headers[i])
                     /\ section_end' = section_boundaries[section_title].end
                     /\ pc' = "walk"
                     /\ UNCHANGED i
    /\ UNCHANGED <<classify_arg, classify_ret, page, html, data, introduction, section_headers,
                   section_boundaries, content_structure, visited>>

\* one turn of "while current_element"; == on two tags compares their names,
\* attributes and contents, which is equality of the element records
walk_sibling ==
    /\ pc = "walk"
    /\ LET next_element == find_next_sibling(html, current_element)
       IN  IF \/ next_element = NoPath
              \/ /\ section_end # NoPath
                 /\ At(html, next_element) = At(html, section_end)
           THEN /\ content_structure' = Append(content_structure, current_section)
                /\ i' = i + 1
                /\ pc' = "sections"
                /\ UNCHANGED <<current_section, current_element, visited>>
           ELSE LET after == process_element_sequentially(
                                 At(html, next_element), current_section)
                IN  /\ current_section' = after
                    /\ current_element' = next_element
                    /\ visited' = Append(visited,
                           [section |-> i,
                            node |-> next_element,
                            kind |-> classify_element_type(At(html, next_element)),
                            emitted |-> after # current_section])
                    /\ UNCHANGED <<content_structure, i, pc>>
    /\ UNCHANGED <<classify_arg, classify_ret, page, html, data, introduction, section_headers,
                   section_boundaries, section_end>>

\* "Build final structure" (the metadata fields are left out); the locals
\* end with the call
build_data ==
    /\ pc = "build"
    /\ data' = [document |-> [introduction |-> introduction,
                              content |-> content_structure]]
    /\ pc' = "idle"
    /\ introduction' = <<>>
    /\ section_headers' = <<>>
    /\ section_boundaries' = NoBoundaries
    /\ content_structure' = <<>>
    /\ i' = 1
    /\ current_section' = NoSection
    /\ current_element' = NoPath
    /\ section_end' = NoPath
    /\ visited' = <<>>
    /\ UNCHANGED <<classify_arg, classify_ret, page, html>>

Next ==
    \/ \E h \in {page, ErrorPage} : parse_content(h)
    \/ start_section
    \/ walk_sibling
    \/ build_data

Spec == Init /\ [][Next]_vars

\* ------------------------------------------------------------------------
\* Reading the output
\* ------------------------------------------------------------------------
Range(f) == {f[k] : k \in DOMAIN f}

\* document order of two places of the tree
RECURSIVE DocBefore(_, _)
DocBefore(p, q) ==
    IF p = <<>> THEN q # <<>>
    ELSE IF q = <<>> THEN FALSE
    ELSE IF Head(p) # Head(q) THEN Head(p) < Head(q)
    ELSE DocBefore(Tail(p), Tail(q))

\* a content sequence read in tree order: a subsection stands for its
\* heading (the subsection with no content yet) followed by its content
RECURSIVE Flatten(_)
Flatten(content) ==
    IF content = <<>> THEN <<>>
    ELSE LET b == Head(content)
         IN  (IF b.type = "subsection"
              THEN <<[b EXCEPT !.content = <<>>]>> \o b.content
              ELSE <<b>>)
             \o Flatten(Tail(content))

\* what one node yields: the heading of a new subsection, a block, or NoData
BlockOf(element) ==
    LET element_type == classify_element_type(element)
        extracted_data == extract_content_data(element, element_type)
    IN  IF element_type = "unknown" THEN NoData
        ELSE IF element_type = "sub_header"
             THEN [type |-> "subsection", title |-> extracted_data.title,
                   id |-> extracted_data.id, content |-> <<>>]
             ELSE extracted_data

HasDocument == DOMAIN data # {}
Sections == IF HasDocument THEN data.document.content ELSE <<>>
Introduction == IF HasDocument THEN data.document.introduction ELSE <<>>

\* every block of the document: the introduction's and each section's
OutputBlocks ==
    Range(Introduction)
    \cup UNION {Range(Flatten(Sections[n].content)) : n \in 1..Len(Sections)}

\* the headers that open a section (a blank title opens none), by index
Titled ==
    SelectSeq([k \in 1..Len(section_headers) |-> k],
              LAMBDA k : header_title(html, section_headers[k]) # <<>>)

TakenBy(j) == SelectSeq(visited, LAMBDA v : v.section = j /\ v.emitted)

InOrder(section, j) ==
    LET taken == TakenBy(j)
    IN  /\ Flatten(section.content) =
               [k \in 1..Len(taken) |-> BlockOf(At(html, taken[k].node))]
        /\ \A k \in 1..(Len(taken) - 1) : DocBefore(taken[k].node, taken[k + 1].node)

\* ------------------------------------------------------------------------
\* C1: the blocks of a section, read in tree order with each subsection's
\* content in its place, are the blocks of the nodes the walk took them
\* from, in the document order of those nodes; this holds of the section in
\* progress after every node and of every finished section.
\* ------------------------------------------------------------------------
OrderPreserved ==
    pc # "idle" =>
        /\ \A n \in 1..Len(content_structure) :
               InOrder(content_structure[n], Titled[n])
        /\ pc = "walk" => InOrder(current_section, i)

\* a finished section holding prose, then a subsection with a table in it
OrderPreservedWitness ==
    /\ pc = "build"
    /\ \E n \in 1..Len(content_structure) :
          LET flat == Flatten(content_structure[n].content)
          IN  /\ Len(flat) >= 3
              /\ flat[1].type = "content"
              /\ flat[2].type = "subsection"
              /\ flat[3].type = "table"

\* ------------------------------------------------------------------------
\* C2: a step of the walk that yields a block appends it to the last
\* subsection when a sub-header was seen earlier in this section and to the
\* section itself otherwise; a sub-header appends a new, empty subsection;
\* nothing placed earlier changes, and only the last subsection can grow.
\* ------------------------------------------------------------------------
SubsectionAttachment ==
    [][(pc = "walk" /\ pc' = "walk") =>
        LET block == BlockOf(At(html, current_element'))
            seen == \E k \in 1..Len(visited) :
                        visited[k].section = i /\ visited[k].kind = "sub_header"
            before == current_section.content
            after == current_section'.content
            last == Len(before)
        IN  IF block = NoData THEN after = before
            ELSE IF block.type = "subsection" THEN after = Append(before, block)
            ELSE IF seen
                 THEN /\ Len(after) = last
                      /\ \A k \in 1..(last - 1) : after[k] = before[k]
                      /\ before[last].type = "subsection"
                      /\ after[last] =
                             [before[last] EXCEPT !.content = Append(@, block)]
                 ELSE after = Append(before, block)]_vars

\* prose before a sub-header stays in the section; what follows the
\* sub-header is in the subsection
SubsectionAttachmentWitness ==
    /\ pc = "walk"
    /\ Len(current_section.content) = 2
    /\ current_section.content[1].type = "content"
    /\ current_section.content[2].type = "subsection"
    /\ Len(current_section.content[2].content) >= 1

\* ------------------------------------------------------------------------
\* C3: no block of type main_header is in the content of a section or of
\* a subsection of the document.
\* ------------------------------------------------------------------------
NoMainHeaderBlock ==
    \A n \in 1..Len(Sections) :
        \A b \in Range(Flatten(Sections[n].content)) : b.type # "main_header"

\* ------------------------------------------------------------------------
\* C4: when the container holds no main header, there are no sections and
\* the introduction has the block of every node of the container that
\* yields prose or an example.
\* ------------------------------------------------------------------------
IntroductionAbsorbsAll ==
    (pc = "build" /\ section_headers = <<>>) =>
        /\ content_structure = <<>>
        /\ LET main_content == find_all_paths(html, <<>>, {"div"}, "leading-0")[1]
               nodes == At(html, main_content).kids
           IN  \A k \in 1..Len(nodes) :
                   BlockOf(nodes[k]).type \in {"content", "example"} =>
                       BlockOf(nodes[k]) \in Range(introduction)

\* ------------------------------------------------------------------------
\* C5: every table block of the document has a row with a non-empty cell.
\* ------------------------------------------------------------------------
TablesHaveRows ==
    \A b \in OutputBlocks :
        b.type = "table" =>
            \E r \in 1..Len(b.rows) : \E c \in 1..Len(b.rows[r]) : b.rows[r][c] # <<>>

\* ------------------------------------------------------------------------
\* C6: every section and every subsection of the document has a non-empty
\* id.
\* ------------------------------------------------------------------------
IdsNonEmpty ==
    \A n \in 1..Len(Sections) :
        /\ Sections[n].id # <<>>
        /\ \A b \in Range(Sections[n].content) :
               b.type = "subsection" => b.id # <<>>

\* ------------------------------------------------------------------------
\* C7: every paragraph of a prose block of the document is longer than 10
\* characters, and every example block has a non-empty citation.
\* ------------------------------------------------------------------------
NoEmptyText ==
    \A b \in OutputBlocks :
        /\ b.type = "content" =>
               \A k \in 1..Len(b.paragraphs) : Len(b.paragraphs[k]) > 10
        /\ b.type = "example" => b.citation # <<>>

\* ------------------------------------------------------------------------
\* C8: once parse_content has returned on markup without the main content
\* container, the scraper holds an empty document.
\* ------------------------------------------------------------------------
EmptyDocumentWithoutContainer ==
    (pc = "idle" /\ find_all_paths(html, <<>>, {"div"}, "leading-0") = <<>>) =>
        \/ ~HasDocument
        \/ Introduction = <<>> /\ Sections = <<>>

\* ------------------------------------------------------------------------
\* C9: a node gives a block to section j only if it lies after the
\* container of header j and, when there is a header j + 1, before that
\* header's container.
\* ------------------------------------------------------------------------
SectionSpan ==
    pc # "idle" =>
        \A k \in 1..Len(visited) :
            visited[k].emitted =>
                LET j == visited[k].section
                    node == visited[k].node
                IN  /\ DocBefore(parent(section_headers[j]), node)
                    /\ j < Len(section_headers) =>
                           DocBefore(node, parent(section_headers[j + 1]))

\* ------------------------------------------------------------------------
\* C10: a text is in no more blocks of the introduction than there are
\* nodes before the first main header that hold it as their own text.
\* ------------------------------------------------------------------------
RECURSIVE own_text_from(_, _)
own_text_from(kids, k) ==
    IF k > Len(kids) THEN <<>>
    ELSE (IF IsTag(kids[k]) THEN <<>> ELSE kids[k].text) \o own_text_from(kids, k + 1)

OwnText(e) == clean_text(own_text_from(e.kids, 1))

NoDoubleCount ==
    (pc = "build" /\ introduction # <<>>) =>
        LET first_section == parent(section_headers[1])
            holders(t) == {p \in Range(PathsUnder(html, <<>>, 1)) :
                              DocBefore(p, first_section) /\ OwnText(At(html, p)) = t}
            blocks(t) == {k \in 1..Len(introduction) :
                             /\ introduction[k].type = "content"
                             /\ t \in Range(introduction[k].paragraphs)}
            texts == UNION {Range(introduction[k].paragraphs) :
                               k \in {m \in 1..Len(introduction) :
                                         introduction[m].type = "content"}}
        IN  \A t \in texts : Cardinality(blocks(t)) <= Cardinality(holders(t))

\* ------------------------------------------------------------------------
\* classify_element_type on its own, over nodes built from every kind of
\* child its checks look for
\* ------------------------------------------------------------------------
MaxKids == 2

Heading(class, t) == El("h2", class, <<Txt(t)>>)

KidPool ==
    { El("svg", {"fill-blue-200"}, <<>>),
      El("svg", {}, <<>>),
      Table(<<>>),
      Heading({"text-3xl"}, <<"A">>),
      Heading({"text-3xl", "font-bold"}, <<"A">>),
      Heading({"font-bold"}, <<"S", "A">>),
      Heading({"font-bold"}, <<"S", "a">>),
      Heading({"font-bold", "tracking-widest"}, <<"s", "a">>),
      Heading({}, <<"S", "A">>),
      El("p", {"font-serif"}, <<Txt(Chars("x", 11))>>),
      Txt(Chars("x", 6)),
      Txt(<<" ", "x", " ">>) }

Elements ==
    {[tag |-> tag, class |-> class, text |-> <<>>, kids |-> kids] :
        tag \in {"div", "table"}, class \in {{}, {"example"}},
        kids \in SeqsUpTo(KidPool, MaxKids)}

InitClassify ==
    /\ page = Soup(<<>>)
    /\ html = Soup(<<>>)
    /\ data = [k \in {} |-> <<>>]
    /\ pc = "idle"
    /\ introduction = <<>>
    /\ section_headers = <<>>
    /\ section_boundaries = NoBoundaries
    /\ content_structure = <<>>
    /\ i = 1
    /\ current_section = NoSection
    /\ current_element = NoPath
    /\ section_end = NoPath
    /\ visited = <<>>
    /\ classify_arg \in Elements
    /\ classify_ret = NoType

classify ==
    /\ classify_ret = NoType
    /\ classify_ret' = classify_element_type(classify_arg)
    /\ UNCHANGED <<page, html, data, pc, locals, classify_arg>>

SpecClassify == InitClassify /\ [][classify]_vars

\* ------------------------------------------------------------------------
\* C11: classify_element_type returns one of the six kinds, and the kind is
\* the first in the order example, table, main_header, sub_header, content
\* whose test the node passes, unknown when it passes none; a bold h2 that
\* is neither upper-case nor marked makes the node content, not sub_header.
\* ------------------------------------------------------------------------
Kinds == {"example", "table", "main_header", "sub_header", "content", "unknown"}

FirstHeading(e) == find(e, {"h2"}, AnyClass)

ExampleTest(e) ==
    \/ "example" \in e.class
    \/ find(e, {"svg"}, AnyClass) # <<>> /\ HasMarker(e, "fill-blue-200")

TableTest(e) == e.tag = "table" \/ find(e, {"table"}, AnyClass) # <<>>

MainHeaderTest(e) ==
    FirstHeading(e) # <<>> /\ "text-3xl" \in FirstHeading(e)[1].class

BoldHeading(e) ==
    FirstHeading(e) # <<>> /\ "font-bold" \in FirstHeading(e)[1].class

SubHeaderTest(e) ==
    /\ BoldHeading(e)
    /\ \/ isupper(clean_text(get_text(FirstHeading(e)[1])))
       \/ FirstHeading(e)[1].class \cap SubHeaderMarkers # {}

ProseTest(e) ==
    \/ BoldHeading(e)
    \/ find(e, {"p"}, "font-serif") # <<>>
    \/ Len(clean_text(get_text(e))) > 5

Passed(e) ==
    (IF ExampleTest(e) THEN {"example"} ELSE {})
    \cup (IF TableTest(e) THEN {"table"} ELSE {})
    \cup (IF MainHeaderTest(e) THEN {"main_header"} ELSE {})
    \cup (IF SubHeaderTest(e) THEN {"sub_header"} ELSE {})
    \cup (IF ProseTest(e) THEN {"content"} ELSE {})

Priority == <<"example", "table", "main_header", "sub_header", "content">>

====
